---- MODULE Spec2Model ----
(***************************************************************************)
(* A model of the TOOT-OTTO engine of connect-four-cli/src/toot_otto.rs:   *)
(* the two boards (Grid, the mover board, and DummyGrid, the chip board),  *)
(* the line scanner check_win, the heuristic ai_check_state, the           *)
(* alpha-beta search ai_max_state / ai_min_state / ai_value, and the       *)
(* controller operations make_move, ai_make_move and start_game.           *)
(***************************************************************************)
EXTENDS Integers, Sequences, FiniteSets, TLC

(* ------------------------------ bounds -------------------------------- *)
\* The largest depth limit given to Game::new.
MaxDepth == 1
\* Calls with the column past the board's last are made while fewer than
\* MaxStray cells of the storage past the board hold a value.
MaxStray == 1

(* ------------------------- program constants -------------------------- *)
\* items: [i32; 80]
Capacity == 80
\* The search's initial alpha/beta and v.  The source's literal is
\* 100000000007; it is only ever compared with scores, never added to, and
\* every score is at most 999999 in magnitude or a sum of a few small cubes,
\* so any value above those orders the same.  TLC's integers are 32 bits wide.
Inf == 1000000007
\* ret_value = 999999
WinScore == 999999

Chips == {"T", "O"}
P1Name == "Alice"
P2Name == "Bob"

\* Option<_>: None is the empty tuple, Some(x) the one-element tuple.
None == <<>>
Some(x) == <<x>>

(* ------------------------------ Board --------------------------------- *)
\* Grid and DummyGrid have the same fields and the same code; one set of
\* operators models both.
GridNew(row_size, col_size) ==
    [items |-> [x \in 0..(Capacity - 1) |-> 0],
     num_rows |-> row_size,
     num_cols |-> col_size]

\* The storage index of (row, col): the expression between items[ and ].
\* NoCol stands for usize::MAX, the value of -1 as usize: with it the index is
\* 2^64 - 1 - row after wrapping (or the multiplication overflows in a debug
\* build); both are a panic.
NoCol == -1
Index(g, row, col) == col * g.num_rows + (g.num_rows - 1 - row)
InStorage(g, row, col) ==
    col /= NoCol /\ Index(g, row, col) >= 0 /\ Index(g, row, col) < Capacity

\* get: the caller checks InStorage first (an index outside items panics).
Get(g, row, col) == g.items[Index(g, row, col)]

Set(g, row, col, val) == [g EXCEPT !.items[Index(g, row, col)] = val]

\* insert_chip: rows from num_rows - 1 down to 0, the first cell holding 0 is
\* set.  The result is [kind, row, grid]: "Ok" with the row and the new board,
\* "Err" with the board as it was, "Panic" when get indexes outside items.
RECURSIVE InsertFrom(_, _, _, _)
InsertFrom(g, col, grid_val, r) ==
    IF r < 0 THEN [kind |-> "Err", row |-> -1, grid |-> g]
    ELSE IF ~InStorage(g, r, col) THEN [kind |-> "Panic", row |-> -1, grid |-> g]
    ELSE IF Get(g, r, col) = 0
         THEN [kind |-> "Ok", row |-> r, grid |-> Set(g, r, col, grid_val)]
         ELSE InsertFrom(g, col, grid_val, r - 1)

\* insert_chip with a full column taken for a free one: the top cell is
\* written over.
insert_chip_overwrite(g, col, grid_val) ==
    LET res == InsertFrom(g, col, grid_val, g.num_rows - 1)
    IN  IF res.kind = "Err"
        THEN [kind |-> "Ok", row |-> 0, grid |-> Set(g, 0, col, grid_val)]
        ELSE res

\* insert_chip without .rev(): rows are tried from 0 up.
RECURSIVE InsertFromTop(_, _, _, _)
InsertFromTop(g, col, grid_val, r) ==
    IF r >= g.num_rows THEN [kind |-> "Err", row |-> -1, grid |-> g]
    ELSE IF ~InStorage(g, r, col) THEN [kind |-> "Panic", row |-> -1, grid |-> g]
    ELSE IF Get(g, r, col) = 0
         THEN [kind |-> "Ok", row |-> r, grid |-> Set(g, r, col, grid_val)]
         ELSE InsertFromTop(g, col, grid_val, r + 1)

insert_chip_from_top(g, col, grid_val) == InsertFromTop(g, col, grid_val, 0)

\* insert_chip that sets the cell above the lowest empty cell of the column
\* where there is one.
insert_chip_floating(g, col, grid_val) ==
    LET res == InsertFrom(g, col, grid_val, g.num_rows - 1)
    IN  IF res.kind = "Ok" /\ res.row >= 1
        THEN [kind |-> "Ok", row |-> res.row - 1,
              grid |-> Set(g, res.row - 1, col, grid_val)]
        ELSE res

insert_chip(g, col, grid_val) == InsertFrom(g, col, grid_val, g.num_rows - 1)

(* ------------------------- value translation -------------------------- *)
player_move_translate(p) == IF p % 2 = 0 THEN 1 ELSE -1

player_move_dummy_translate(chip_type) == IF chip_type = "T" THEN 1 ELSE -1

(* ---------------------------- Line Scanner ---------------------------- *)
\* The four windows read at (i, j): a cell outside the board stays 0.
temp_r1(g, i, j) ==
    [k \in 0..3 |-> IF j + k < g.num_cols THEN Get(g, i, j + k) ELSE 0]

temp_b1(g, i, j) ==
    [k \in 0..3 |-> IF i + k < g.num_rows THEN Get(g, i + k, j) ELSE 0]

temp_br1(g, i, j) ==
    [k \in 0..3 |-> IF i + k < g.num_rows /\ j + k < g.num_cols
                    THEN Get(g, i + k, j + k) ELSE 0]

\* temp_br2 without the test i - k >= 0: the row above the board is read
\* where the storage index leads, in the next column.
temp_br2_unclipped(g, i, j) ==
    [k \in 0..3 |-> IF j + k < g.num_cols /\ InStorage(g, i - k, j + k)
                    THEN Get(g, i - k, j + k) ELSE 0]

temp_br2(g, i, j) ==
    [k \in 0..3 |-> IF i - k >= 0 /\ j + k < g.num_cols
                    THEN Get(g, i - k, j + k) ELSE 0]

\* IsTOOT with the fourth comparison left out.
IsTOOT_three(w) ==
    LET T == player_move_dummy_translate("T")
        O == player_move_dummy_translate("O")
    IN  w[0] = T /\ w[1] = O /\ w[2] = O

IsTOOT(w) ==
    LET T == player_move_dummy_translate("T")
        O == player_move_dummy_translate("O")
    IN  w[0] = T /\ w[1] = O /\ w[2] = O /\ w[3] = T

IsOTTO(w) ==
    LET T == player_move_dummy_translate("T")
        O == player_move_dummy_translate("O")
    IN  w[0] = O /\ w[1] = T /\ w[2] = T /\ w[3] = O

\* The if / else-if chain at one cell: 1, -1, or 0 when no branch is taken.
CellMatch(g, i, j) ==
    LET r1 == temp_r1(g, i, j)
        b1 == temp_b1(g, i, j)
        br1 == temp_br1(g, i, j)
        br2 == temp_br2(g, i, j)
    IN  IF IsTOOT(r1) THEN 1
        ELSE IF IsOTTO(r1) THEN -1
        ELSE IF IsTOOT(b1) THEN 1
        ELSE IF IsOTTO(b1) THEN -1
        ELSE IF IsTOOT(br1) THEN 1
        ELSE IF IsOTTO(br1) THEN -1
        ELSE IF IsTOOT(br2) THEN 1
        ELSE IF IsOTTO(br2) THEN -1
        ELSE 0

\* The two loops run to their end, a later match taking the place of an
\* earlier one, as in ai_check_state.
RECURSIVE ScanFrom_last_match(_, _)
ScanFrom_last_match(g, n) ==
    IF n >= g.num_rows * g.num_cols THEN 0
    ELSE LET rest == ScanFrom_last_match(g, n + 1)
         IN  IF rest /= 0 THEN rest
             ELSE CellMatch(g, n \div g.num_cols, n % g.num_cols)

\* The two nested loops, cell n = i * num_cols + j, returning at the first
\* cell that matches; 0 when the loops run to their end.
RECURSIVE ScanFrom(_, _)
ScanFrom(g, n) ==
    IF n >= g.num_rows * g.num_cols THEN 0
    ELSE LET m == CellMatch(g, n \div g.num_cols, n % g.num_cols)
         IN  IF m /= 0 THEN m ELSE ScanFrom(g, n + 1)

\* check_win with the draw test made before the scan.
check_win_draw_first(dg, pm, st) ==
    LET m == ScanFrom(dg, 0)
    IN  IF pm = dg.num_rows * dg.num_cols /\ st /= "Done" THEN Some(0)
        ELSE IF m /= 0 THEN Some(m)
        ELSE None

\* check_win(&self): the scan of dummy_grid, then the draw test.
check_win(dg, pm, st) ==
    LET m == ScanFrom(dg, 0)
    IN  IF m /= 0 THEN Some(m)
        ELSE IF pm = dg.num_rows * dg.num_cols /\ st /= "Done" THEN Some(0)
        ELSE None

(* ------------------------- Heuristic Evaluator ------------------------ *)
\* temp_r, temp_b, temp_br, temp_tr: the window weighted by O, T, T, O.
OttoWeight(w) ==
    LET T == player_move_dummy_translate("T")
        O == player_move_dummy_translate("O")
    IN  w[0] * O + w[1] * T + w[2] * T + w[3] * O

Cube(x) == x * x * x

\* What one cell adds to chain_val, given its four windows.
CellChain(r1, b1, br1, br2) ==
    Cube(OttoWeight(r1)) + Cube(OttoWeight(b1))
    + Cube(OttoWeight(br1)) + Cube(OttoWeight(br2))

\* The if / else-if chain at one cell: win_val is assigned -4 or 4, or kept.
CellWinVal(r1, b1, br1, br2, win_val) ==
    IF IsTOOT(r1) THEN -4
    ELSE IF IsOTTO(r1) THEN 4
    ELSE IF IsTOOT(b1) THEN -4
    ELSE IF IsOTTO(b1) THEN 4
    ELSE IF IsTOOT(br1) THEN -4
    ELSE IF IsOTTO(br1) THEN 4
    ELSE IF IsTOOT(br2) THEN -4
    ELSE IF IsOTTO(br2) THEN 4
    ELSE win_val

\* The two nested loops of ai_check_state: no early return, every cell is
\* visited and a later match overwrites win_val.
RECURSIVE CheckStateFrom(_, _, _, _)
CheckStateFrom(g, n, win_val, chain_val) ==
    IF n >= g.num_rows * g.num_cols THEN <<win_val, chain_val>>
    ELSE LET i == n \div g.num_cols
             j == n % g.num_cols
             r1 == temp_r1(g, i, j)
             b1 == temp_b1(g, i, j)
             br1 == temp_br1(g, i, j)
             br2 == temp_br2(g, i, j)
         IN  CheckStateFrom(g, n + 1, CellWinVal(r1, b1, br1, br2, win_val),
                            chain_val + CellChain(r1, b1, br1, br2))

\* ai_check_state(state) -> (win_val, chain_val)
ai_check_state(g) == CheckStateFrom(g, 0, 0, 0)

(* --------------------------- Minimax Search --------------------------- *)
\* The first i in 0 .. num_rows - 2 with a chip at (i + 1, column), else
\* num_rows - 1.
RECURSIVE FillRow(_, _, _)
FillRow(g, column, i) ==
    IF i >= g.num_rows - 1 THEN g.num_rows - 1
    ELSE IF Get(g, i + 1, column) /= 0 THEN i
    ELSE FillRow(g, column, i + 1)

\* ai_fill_map without the test of the top cell: a full column has its top
\* cell written over.
ai_fill_map_unfiltered(g, column, value) ==
    IF column >= g.num_cols THEN None
    ELSE Some(Set(g, FillRow(g, column, 0), column, value))

\* ai_fill_map(state, column, value) -> Option<DummyGrid>, on a copy of state.
ai_fill_map(g, column, value) ==
    IF Get(g, 0, column) /= 0 \/ column >= g.num_cols THEN None
    ELSE Some(Set(g, FillRow(g, column, 0), column, value))

Max2(a, b) == IF a > b THEN a ELSE b
Min2(a, b) == IF a < b THEN a ELSE b

\* let x = e; F(x): e is evaluated once and F reads its value.
Bind(e, F(_)) == CHOOSE r \in {F(x) : x \in {e}} : TRUE

\* ai_max_state and ai_min_state return [v, queue, deep, calls]: the score
\* and move_queue as it stands at the return.  The column they return is
\* Game::choose(move_queue), or -1 when it is empty.  ai_value returns
\* [v, deep, calls]: its callers read temp_val.0 only, the score.  deep and
\* calls are history values, not in the code: the largest depth ai_value was
\* entered with, and the number of times it was entered.
RECURSIVE ai_value(_, _, _, _, _, _)
RECURSIVE MaxLoop(_, _, _, _, _, _, _, _, _)
RECURSIVE MinLoop(_, _, _, _, _, _, _, _, _)

\* The loop of ai_max_state returning when v > alpha, the value the window
\* had before the column, and not when v > beta.
MaxBody_cut_on_alpha(g, depth, alpha, beta, ai_move_val, maxd, j, v, queue) ==
    Bind(ai_fill_map(g, j, ai_move_val), LAMBDA temp_state_opt :
      IF temp_state_opt = None
      THEN [v |-> v, queue |-> queue, alpha |-> alpha, return |-> FALSE,
            deep |-> 0, calls |-> 0]
      ELSE Bind(ai_value(temp_state_opt[1], depth, alpha, beta, ai_move_val, maxd),
                LAMBDA temp_val :
             LET v2 == IF temp_val.v > v THEN temp_val.v ELSE v
                 q2 == IF temp_val.v > v THEN <<j>>
                       ELSE IF temp_val.v = v THEN Append(queue, j)
                       ELSE queue
             IN  [v |-> v2, queue |-> q2, alpha |-> Max2(alpha, v2),
                  return |-> v2 > alpha,
                  deep |-> temp_val.deep, calls |-> temp_val.calls]))

\* One turn of the for loop of ai_max_state, at column j: the new v,
\* move_queue and alpha, and whether the loop returns there (v > beta).
MaxBody(g, depth, alpha, beta, ai_move_val, maxd, j, v, queue) ==
    Bind(ai_fill_map(g, j, ai_move_val), LAMBDA temp_state_opt :
      IF temp_state_opt = None
      THEN [v |-> v, queue |-> queue, alpha |-> alpha, return |-> FALSE,
            deep |-> 0, calls |-> 0]
      ELSE Bind(ai_value(temp_state_opt[1], depth, alpha, beta, ai_move_val, maxd),
                LAMBDA temp_val :
             LET v2 == IF temp_val.v > v THEN temp_val.v ELSE v
                 q2 == IF temp_val.v > v THEN <<j>>
                       ELSE IF temp_val.v = v THEN Append(queue, j)
                       ELSE queue
             IN  [v |-> v2, queue |-> q2, alpha |-> Max2(alpha, v2),
                  return |-> v2 > beta,
                  deep |-> temp_val.deep, calls |-> temp_val.calls]))

\* The for loop of ai_max_state from column j on, with the running v, alpha
\* and move_queue.
MaxLoop(g, depth, alpha, beta, ai_move_val, maxd, j, v, queue) ==
    IF j >= g.num_cols
    THEN [v |-> v, queue |-> queue, deep |-> 0, calls |-> 0]
    ELSE Bind(MaxBody(g, depth, alpha, beta, ai_move_val, maxd, j, v, queue),
              LAMBDA b :
           IF b.return
           THEN [v |-> b.v, queue |-> b.queue, deep |-> b.deep, calls |-> b.calls]
           ELSE Bind(MaxLoop(g, depth, b.alpha, beta, ai_move_val, maxd, j + 1,
                             b.v, b.queue),
                     LAMBDA r :
                  [v |-> r.v, queue |-> r.queue, deep |-> Max2(b.deep, r.deep),
                   calls |-> b.calls + r.calls]))

ai_max_state(g, depth, alpha, beta, ai_move_val, maxd) ==
    MaxLoop(g, depth, alpha, beta, ai_move_val, maxd, 0, -Inf, <<>>)

\* One turn of the for loop of ai_min_state: the chip tried is
\* ai_move_val * -1, and the loop returns when v < alpha.
MinBody(g, depth, alpha, beta, ai_move_val, maxd, j, v, queue) ==
    Bind(ai_fill_map(g, j, ai_move_val * (-1)), LAMBDA temp_state_opt :
      IF temp_state_opt = None
      THEN [v |-> v, queue |-> queue, beta |-> beta, return |-> FALSE,
            deep |-> 0, calls |-> 0]
      ELSE Bind(ai_value(temp_state_opt[1], depth, alpha, beta, ai_move_val, maxd),
                LAMBDA temp_val :
             LET v2 == IF temp_val.v < v THEN temp_val.v ELSE v
                 q2 == IF temp_val.v < v THEN <<j>>
                       ELSE IF temp_val.v = v THEN Append(queue, j)
                       ELSE queue
             IN  [v |-> v2, queue |-> q2, beta |-> Min2(beta, v2),
                  return |-> v2 < alpha,
                  deep |-> temp_val.deep, calls |-> temp_val.calls]))

MinLoop(g, depth, alpha, beta, ai_move_val, maxd, j, v, queue) ==
    IF j >= g.num_cols
    THEN [v |-> v, queue |-> queue, deep |-> 0, calls |-> 0]
    ELSE Bind(MinBody(g, depth, alpha, beta, ai_move_val, maxd, j, v, queue),
              LAMBDA b :
           IF b.return
           THEN [v |-> b.v, queue |-> b.queue, deep |-> b.deep, calls |-> b.calls]
           ELSE Bind(MinLoop(g, depth, alpha, b.beta, ai_move_val, maxd, j + 1,
                             b.v, b.queue),
                     LAMBDA r :
                  [v |-> r.v, queue |-> r.queue, deep |-> Max2(b.deep, r.deep),
                   calls |-> b.calls + r.calls]))

ai_min_state(g, depth, alpha, beta, ai_move_val, maxd) ==
    MinLoop(g, depth, alpha, beta, ai_move_val, maxd, 0, Inf, <<>>)

\* The score at the depth limit: chain_val * ai_move_val, or +-999999 on a
\* win signal, less depth * depth.
LeafValue(val, depth, ai_move_val) ==
    (IF val[1] = 4 THEN WinScore
     ELSE IF val[1] = 4 * (-1) THEN WinScore * (-1)
     ELSE val[2] * ai_move_val) - depth * depth

\* The depth test of ai_value taken one ply late.
AtDepthLimit_late(depth, maxd) == depth > maxd

\* if depth >= self.max_ai_depth
AtDepthLimit(depth, maxd) == depth >= maxd

ai_value(g, depth, alpha, beta, ai_move_val, maxd) ==
    LET T == player_move_dummy_translate("T")
        O == player_move_dummy_translate("O")
    IN  Bind(ai_check_state(g), LAMBDA val :
          IF AtDepthLimit(depth, maxd)
          THEN [v |-> LeafValue(val, depth, ai_move_val), deep |-> depth, calls |-> 1]
          ELSE IF val[1] = 4
          THEN [v |-> WinScore - depth * depth, deep |-> depth, calls |-> 1]
          ELSE IF val[1] = 4 * (-1)
          THEN [v |-> WinScore * (-1) - depth * depth, deep |-> depth, calls |-> 1]
          ELSE IF depth % 2 = 0
          THEN Bind(ai_min_state(g, depth + 1, alpha, beta, T, maxd), LAMBDA t :
               Bind(ai_min_state(g, depth + 1, alpha, beta, O, maxd), LAMBDA o :
                 [v |-> IF t.v > o.v THEN o.v ELSE t.v,
                  deep |-> Max2(depth, Max2(t.deep, o.deep)),
                  calls |-> 1 + t.calls + o.calls]))
          ELSE Bind(ai_max_state(g, depth + 1, alpha, beta, T, maxd), LAMBDA t :
               Bind(ai_max_state(g, depth + 1, alpha, beta, O, maxd), LAMBDA o :
                 [v |-> IF t.v > o.v THEN t.v ELSE o.v,
                  deep |-> Max2(depth, Max2(t.deep, o.deep)),
                  calls |-> 1 + t.calls + o.calls])))

\* Game::choose(choice): rng.gen_range(0, choice.len()) is the draw r brought
\* into 0 .. len - 1.
choose(choice, r) == choice[(r % Len(choice)) + 1]

\* Game::choose(choice), every element it can return; -1 stands for the
\* branch move_queue.len() == 0, which returns -1 without calling choose.
ChosenMoves(queue) ==
    IF Len(queue) = 0 THEN {-1} ELSE {choose(queue, r) : r \in 0..(Len(queue) - 1)}

\* The two searches of ai_move_val: Play T, then Play O.
RootSearch(dg, maxd) ==
    [t |-> ai_max_state(dg, 0, -Inf, Inf, player_move_dummy_translate("T"), maxd),
     o |-> ai_max_state(dg, 0, -Inf, Inf, player_move_dummy_translate("O"), maxd)]

\* What ai_move_val returns from the two searches s, when the draws of the
\* generator that reach its result are d: d.t and d.o in the choose of each
\* search, d.coin in rng.gen() on t_val = o_val.
ai_move_val_drawn(s, d) ==
    LET t_move == IF Len(s.t.queue) = 0 THEN NoCol ELSE choose(s.t.queue, d.t)
        o_move == IF Len(s.o.queue) = 0 THEN NoCol ELSE choose(s.o.queue, d.o)
    IN  IF s.t.v > s.o.v THEN <<"T", t_move>>
        ELSE IF s.t.v < s.o.v THEN <<"O", o_move>>
        ELSE IF d.coin THEN <<"T", t_move>>
        ELSE <<"O", o_move>>

\* ai_move_val(&self): the set of (chip, column) pairs it can return.  On
\* t_val = o_val the chip is rng.gen(), either one.
ai_move_val(dg, maxd) ==
    Bind(RootSearch(dg, maxd), LAMBDA s :
      LET t_moves == {<<"T", m>> : m \in ChosenMoves(s.t.queue)}
          o_moves == {<<"O", m>> : m \in ChosenMoves(s.o.queue)}
      IN  IF s.t.v > s.o.v THEN t_moves
          ELSE IF s.t.v < s.o.v THEN o_moves
          ELSE t_moves \cup o_moves)

(* --------------------------- Game Controller -------------------------- *)
VARIABLES
    grid,          \* Game.grid: the mover board
    dummy_grid,    \* Game.dummy_grid: the chip board
    p1, p2,        \* Game.p1, Game.p2
    with_ai,       \* Game.with_ai
    state,         \* Game.state
    winner,        \* Game.winner
    p_move,        \* Game.p_move
    max_ai_depth,  \* Game.max_ai_depth
    proc,          \* "running"; "panicked" after a panic; "looping" when a
                   \* call never returns
    last,          \* the last call, a Call record
    restarted      \* start_game has been called on a game that was Done

game == <<grid, dummy_grid, p_move, state, winner>>
vars == <<grid, dummy_grid, p1, p2, with_ai, state, winner, p_move,
          max_ai_depth, proc, last, restarted>>

\* The arguments given to Game::new: row_size, col_size, with_ai, max_depth.
\* 1 x 4: a horizontal line fills the board; 5 x 1: a vertical line leaves a
\* cell free; 4 x 1: a vertical line fills the board; 2 x 2: two columns of
\* two rows, where every game ends in a draw.
NewArgs ==
    {<<1, 4, TRUE, 0>>, <<5, 1, FALSE, MaxDepth>>, <<4, 1, FALSE, 0>>,
     <<2, 2, TRUE, MaxDepth>>}

\* Stray(g): the cells of g's storage past the board that hold a value.
Stray(g) ==
    Cardinality({x \in (g.num_rows * g.num_cols)..(Capacity - 1) : g.items[x] /= 0})

\* The column arguments given to make_move: the columns of the board, the
\* first column past the board (num_cols) and the first column past the
\* storage of every board (Capacity).
ColArgs ==
    0..(grid.num_cols - 1)
    \cup (IF Stray(grid) < MaxStray THEN {grid.num_cols} ELSE {})
    \cup {Capacity}

\* A call's record: its name, the column it was given (ai_make_move: the
\* column it played), the kind of its return, the row it returned and what
\* its check_win returned.
Call(op, col, kind, row, scan) ==
    [op |-> op, col |-> col, kind |-> kind, row |-> row, scan |-> scan]

\* Game::new(row_size, col_size, with_ai, p1_name, p2_name, max_depth)
GameNew(row_size, col_size, ai, p1_name, p2_name, max_depth) ==
    /\ grid = GridNew(row_size, col_size)
    /\ dummy_grid = GridNew(row_size, col_size)
    /\ p1 = p1_name
    /\ p2 = IF ai THEN "Computer" ELSE p2_name
    /\ with_ai = ai
    /\ state = "Running"
    /\ winner = ""
    /\ p_move = 0
    /\ max_ai_depth = max_depth

Init ==
    /\ \E a \in NewArgs : GameNew(a[1], a[2], a[3], P1Name, P2Name, a[4])
    /\ proc = "running"
    /\ last = Call("new", -1, "Unit", -1, None)
    /\ restarted = FALSE

\* start_game that also builds new boards and zeroes the move counter.
start_game_reset ==
    /\ proc = "running"
    /\ state' = "Running"
    /\ grid' = GridNew(grid.num_rows, grid.num_cols)
    /\ dummy_grid' = GridNew(dummy_grid.num_rows, dummy_grid.num_cols)
    /\ p_move' = 0
    /\ restarted' = (restarted \/ state = "Done")
    /\ last' = Call("start_game", -1, "Unit", -1, None)
    /\ UNCHANGED <<p1, p2, with_ai, winner, max_ai_depth, proc>>

\* start_game(&mut self)
start_game ==
    /\ proc = "running"
    /\ state' = "Running"
    /\ restarted' = (restarted \/ state = "Done")
    /\ last' = Call("start_game", -1, "Unit", -1, None)
    /\ UNCHANGED <<grid, dummy_grid, p1, p2, with_ai, winner, p_move,
                   max_ai_depth, proc>>

\* The code after both inserts, the same in make_move and ai_make_move:
\* p_move += 1, check_win, winner and state.
\* The winner taken from who moved last, not from the pattern found.
WinnerAfter_by_mover(result) ==
    IF result = None THEN winner
    ELSE IF result[1] = 0 THEN "Draw"
    ELSE IF player_move_translate(p_move) > 0 THEN p1
    ELSE p2

WinnerAfter(result) ==
    IF result = None THEN winner
    ELSE IF result[1] > 0 THEN p1
    ELSE IF result[1] < 0 THEN p2
    ELSE "Draw"

\* self.state = State::Done moved into the two winner branches: a draw
\* leaves the state as it was.
StateAfter_draw_forgotten(result) ==
    IF result = None \/ result[1] = 0 THEN state ELSE "Done"

StateAfter(result) == IF result = None THEN state ELSE "Done"

\* A call that panics: what it wrote before the panic stays written.
Panics(op, col, g) ==
    /\ proc' = "panicked"
    /\ grid' = g
    /\ last' = Call(op, col, "Panic", -1, None)
    /\ UNCHANGED <<dummy_grid, p1, p2, with_ai, state, winner, p_move,
                   max_ai_depth, restarted>>

\* The rest of the call with the insert into dummy_grid made on a copy:
\* dummy_grid stays as it was.
Placed_dummy_unwritten(op, col, insert_result, dummy_result) ==
    LET result == check_win(dummy_result.grid, p_move + 1, state)
    IN  /\ grid' = insert_result.grid
        /\ dummy_grid' = dummy_grid
        /\ p_move' = p_move + 1
        /\ winner' = WinnerAfter(result)
        /\ state' = StateAfter(result)
        /\ last' = Call(op, col, "Ok", insert_result.row, result)
        /\ UNCHANGED <<p1, p2, with_ai, max_ai_depth, proc, restarted>>

\* The two inserts having been made at col: the rest of the call.
Placed(op, col, insert_result, dummy_result) ==
    LET result == check_win(dummy_result.grid, p_move + 1, state)
    IN  /\ grid' = insert_result.grid
        /\ dummy_grid' = dummy_result.grid
        /\ p_move' = p_move + 1
        /\ winner' = WinnerAfter(result)
        /\ state' = StateAfter(result)
        /\ last' = Call(op, col, "Ok", insert_result.row, result)
        /\ UNCHANGED <<p1, p2, with_ai, max_ai_depth, proc, restarted>>

\* make_move(&mut self, chip_type, col_num)
make_move(chip_type, col_num) ==
    /\ proc = "running"
    /\ LET grid_val == player_move_translate(p_move)
           insert_result == insert_chip(grid, col_num, grid_val)
           chip_value == player_move_dummy_translate(chip_type)
           dummy_result == insert_chip(dummy_grid, col_num, chip_value)
       IN  IF insert_result.kind = "Panic"
           THEN Panics("make_move", col_num, grid)
           ELSE IF insert_result.kind = "Err"
           THEN /\ last' = Call("make_move", col_num, "Err", -1, None)
                /\ UNCHANGED <<grid, dummy_grid, p1, p2, with_ai, state, winner,
                               p_move, max_ai_depth, proc, restarted>>
           ELSE IF dummy_result.kind /= "Ok"
           THEN Panics("make_move", col_num, insert_result.grid)
           ELSE Placed("make_move", col_num, insert_result, dummy_result)

\* The first insert of ai_make_move and its fallback loop: the columns at
\* which the loop can end, with the insert's result there.  The loop draws
\* columns of 0 .. num_cols - 1 until an insert succeeds; when none can, it
\* never ends.
AiInserts(g, col_num, grid_val) ==
    LET first == insert_chip(g, col_num, grid_val)
        open == {c \in 0..(g.num_cols - 1) : insert_chip(g, c, grid_val).kind = "Ok"}
    IN  IF first.kind /= "Err" THEN {[col |-> col_num, res |-> first]}
        ELSE IF open = {}
        THEN {[col |-> col_num, res |-> [kind |-> "Loop", row |-> -1, grid |-> g]]}
        ELSE {[col |-> c, res |-> insert_chip(g, c, grid_val)] : c \in open}

\* ai_make_move(&mut self)
ai_make_move ==
    /\ proc = "running"
    /\ \E mv \in ai_move_val(dummy_grid, max_ai_depth) :
       \E ins \in AiInserts(grid, mv[2], player_move_translate(p_move)) :
          LET chip_type == mv[1]
              chip_value == player_move_dummy_translate(chip_type)
              dummy_result == insert_chip(dummy_grid, ins.col, chip_value)
          IN  IF ins.res.kind = "Panic"
              THEN Panics("ai_make_move", ins.col, grid)
              ELSE IF ins.res.kind = "Loop"
              THEN /\ proc' = "looping"
                   /\ last' = Call("ai_make_move", ins.col, "Loop", -1, None)
                   /\ UNCHANGED <<grid, dummy_grid, p1, p2, with_ai, state,
                                  winner, p_move, max_ai_depth, restarted>>
              ELSE IF dummy_result.kind /= "Ok"
              THEN Panics("ai_make_move", ins.col, ins.res.grid)
              ELSE Placed("ai_make_move", ins.col, ins.res, dummy_result)

Next ==
    \/ \E chip_type \in Chips, col_num \in ColArgs : make_move(chip_type, col_num)
    \/ ai_make_move
    \/ start_game

Spec == Init /\ [][Next]_vars

(* ------------------- pre-constructed chip boards ---------------------- *)
\* A cap on the cells a pre-constructed board holds.
MaxChips == 4

\* The shapes of the pre-constructed boards: 4 x 4 holds one window of each
\* diagonal direction and four of each straight one; 2 x 5 holds two
\* horizontal windows in each row.
ScanShapes == {<<4, 4>>, <<2, 5>>}

Chips_on(g) ==
    Cardinality({x \in 0..(g.num_rows * g.num_cols - 1) : g.items[x] /= 0})

InitScan ==
    /\ \E sh \in ScanShapes : GameNew(sh[1], sh[2], FALSE, P1Name, P2Name, 0)
    /\ proc = "running"
    /\ last = Call("new", -1, "Unit", -1, None)
    /\ restarted = FALSE

\* dummy_grid.set(row, col, val) on an empty cell of the board, then
\* check_win() on the board so built.  A board is built in the order of its
\* storage, so that each is built once.
set_and_check_win(row, col, val) ==
    /\ \A x \in Index(dummy_grid, row, col)..(dummy_grid.num_rows * dummy_grid.num_cols - 1) :
           dummy_grid.items[x] = 0
    /\ dummy_grid' = Set(dummy_grid, row, col, val)
    /\ last' = Call("check_win", -1, "Unit", -1,
                    check_win(dummy_grid', p_move, state))
    /\ UNCHANGED <<grid, p1, p2, with_ai, state, winner, p_move, max_ai_depth,
                   proc, restarted>>

NextScan ==
    /\ Chips_on(dummy_grid) < MaxChips
    /\ \E row \in 0..(dummy_grid.num_rows - 1),
          col \in 0..(dummy_grid.num_cols - 1),
          val \in {player_move_dummy_translate("T"),
                   player_move_dummy_translate("O")} :
           set_and_check_win(row, col, val)

SpecScan == InitScan /\ [][NextScan]_vars

(* ------------------- the search on boards of a game -------------------- *)
\* The largest depth limit given to Game::new for a search.
MaxSearchDepth == 2

\* The largest draw of the generator: choose brings it into its range.
MaxDraw == 1

\* 1 x 4 and 4 x 1 hold one line; 2 x 3 holds none and has three columns of
\* two cells.
SearchShapes == {<<1, 4>>, <<2, 3>>, <<4, 1>>}

\* The draws of the generator that reach the result of ai_move_val.
Draws == [coin : BOOLEAN, t : 0..MaxDraw, o : 0..MaxDraw]

InitSearch ==
    /\ \E sh \in SearchShapes, d \in 0..MaxSearchDepth :
           GameNew(sh[1], sh[2], TRUE, P1Name, P2Name, d)
    /\ proc = "running"
    /\ last = Call("new", -1, "Unit", -1, None)
    /\ restarted = FALSE

\* make_move on a column with no chip to its right: each board is built by
\* one order of moves.
place(chip_type, col_num) ==
    /\ last.op \in {"new", "make_move"}
    /\ \A c \in (col_num + 1)..(dummy_grid.num_cols - 1) :
           Get(dummy_grid, dummy_grid.num_rows - 1, c) = 0
    /\ make_move(chip_type, col_num)

\* ai_move_val searching on dummy_grid itself and not on a copy: the chip of
\* the move it returns stays on the board.
ai_select_in_place ==
    /\ last.op \in {"new", "make_move"}
    /\ \E s \in {RootSearch(dummy_grid, max_ai_depth)} :
       \E d \in Draws :
           /\ last' = [op |-> "ai_move_val", draws |-> d,
                       move |-> ai_move_val_drawn(s, d),
                       t_val |-> s.t.v, o_val |-> s.o.v,
                    t_queue |-> s.t.queue, o_queue |-> s.o.queue,
                       deep |-> Max2(s.t.deep, s.o.deep),
                       calls |-> s.t.calls + s.o.calls]
           /\ dummy_grid' =
                  LET mv == ai_move_val_drawn(s, d)
                      child == IF mv[2] = NoCol THEN None
                               ELSE ai_fill_map(dummy_grid, mv[2],
                                                player_move_dummy_translate(mv[1]))
                  IN  IF child = None THEN dummy_grid ELSE child[1]
    /\ UNCHANGED <<grid, p1, p2, with_ai, state, winner, p_move,
                   max_ai_depth, proc, restarted>>

\* ai_move_val with a generator that does not start from the draws given:
\* the choose of each search is one draw further on.
ai_select_unseeded ==
    /\ last.op \in {"new", "make_move"}
    /\ \E s \in {RootSearch(dummy_grid, max_ai_depth)} :
       \E d \in Draws :
           last' = [op |-> "ai_move_val", draws |-> d,
                    move |-> ai_move_val_drawn(s, [d EXCEPT !.t = d.t + 1,
                                                            !.o = d.o + 1]),
                    t_val |-> s.t.v, o_val |-> s.o.v,
                    t_queue |-> s.t.queue, o_queue |-> s.o.queue,
                    deep |-> Max2(s.t.deep, s.o.deep),
                    calls |-> s.t.calls + s.o.calls]
    /\ UNCHANGED <<grid, dummy_grid, p1, p2, with_ai, state, winner, p_move,
                   max_ai_depth, proc, restarted>>

\* ai_move_val(&self) on the board of the game, with any draws d: the pair
\* it returns, the values and the move_queue of its two searches and their
\* history values.
ai_select ==
    /\ last.op \in {"new", "make_move"}
    /\ \E s \in {RootSearch(dummy_grid, max_ai_depth)} :
       \E d \in Draws :
           last' = [op |-> "ai_move_val", draws |-> d,
                    move |-> ai_move_val_drawn(s, d),
                    t_val |-> s.t.v, o_val |-> s.o.v,
                    t_queue |-> s.t.queue, o_queue |-> s.o.queue,
                    deep |-> Max2(s.t.deep, s.o.deep),
                    calls |-> s.t.calls + s.o.calls]
    /\ UNCHANGED <<grid, dummy_grid, p1, p2, with_ai, state, winner, p_move,
                   max_ai_depth, proc, restarted>>

\* ai_value(state, depth, alpha, beta, ai_move_val) on the board of the game
\* taken as a position of the search, with the window of the root.
ai_value_at(depth, chip_type) ==
    /\ last.op \in {"new", "make_move"}
    /\ last' = [op |-> "ai_value", depth |-> depth, chip |-> chip_type,
                v |-> ai_value(dummy_grid, depth, -Inf, Inf,
                               player_move_dummy_translate(chip_type),
                               max_ai_depth).v]
    /\ UNCHANGED <<grid, dummy_grid, p1, p2, with_ai, state, winner, p_move,
                   max_ai_depth, proc, restarted>>

\* ai_make_move(&mut self) on the board of the game.
ai_play ==
    /\ last.op \in {"new", "make_move"}
    /\ ai_make_move

NextSearch ==
    \/ \E chip_type \in Chips, col_num \in 0..(dummy_grid.num_cols - 1) :
           place(chip_type, col_num)
    \/ ai_select
    \/ ai_play
    \/ \E depth \in 0..max_ai_depth, chip_type \in Chips :
           ai_value_at(depth, chip_type)

SpecSearch == InitSearch /\ [][NextSearch]_vars

(* ---------------- pre-constructed boards holding a line ---------------- *)
\* A cap on the cells written on a board beside those of its first line.
MaxExtra == 3

\* 4 x 4 holds lines of the four directions that cross each other.
LineShapes == {<<4, 4>>}

\* The cells of a line of four from (i, j): k steps of (di, dj).
LineCells(i, j, di, dj) == [k \in 0..3 |-> <<i + k * di, j + k * dj>>]

\* The board g with the chips pat written on the cells cs.
RECURSIVE WriteLine(_, _, _, _)
WriteLine(g, cs, pat, k) ==
    IF k > 3 THEN g
    ELSE WriteLine(Set(g, cs[k][1], cs[k][2], pat[k + 1]), cs, pat, k + 1)

\* A board built with dummy_grid.set: one line of T-O-O-T or O-T-T-O, in any
\* place and direction the board holds, then check_win() on it.
InitLines ==
    /\ \E sh \in LineShapes :
       \E i \in 0..(sh[1] - 1), j \in 0..(sh[2] - 1),
          dir \in {<<0, 1>>, <<1, 0>>, <<1, 1>>, <<-1, 1>>},
          pat \in {<<1, -1, -1, 1>>, <<-1, 1, 1, -1>>} :
           /\ i + 3 * dir[1] \in 0..(sh[1] - 1)
           /\ j + 3 * dir[2] \in 0..(sh[2] - 1)
           /\ grid = GridNew(sh[1], sh[2])
           /\ dummy_grid = WriteLine(GridNew(sh[1], sh[2]),
                                     LineCells(i, j, dir[1], dir[2]), pat, 0)
    /\ p1 = P1Name
    /\ p2 = P2Name
    /\ with_ai = FALSE
    /\ state = "Running"
    /\ winner = ""
    /\ p_move = 0
    /\ max_ai_depth = 0
    /\ proc = "running"
    /\ last = Call("check_win", -1, "Unit", -1, check_win(dummy_grid, p_move, state))
    /\ restarted = FALSE

\* dummy_grid.set(row, col, val) on an empty cell, then check_win().
set_more(row, col, val) ==
    /\ Get(dummy_grid, row, col) = 0
    /\ dummy_grid' = Set(dummy_grid, row, col, val)
    /\ last' = Call("check_win", -1, "Unit", -1,
                    check_win(dummy_grid', p_move, state))
    /\ UNCHANGED <<grid, p1, p2, with_ai, state, winner, p_move, max_ai_depth,
                   proc, restarted>>

NextLines ==
    /\ Chips_on(dummy_grid) < 4 + MaxExtra
    /\ \E row \in 0..(dummy_grid.num_rows - 1),
          col \in 0..(dummy_grid.num_cols - 1),
          val \in {player_move_dummy_translate("T"),
                   player_move_dummy_translate("O")} :
           set_more(row, col, val)

SpecLines == InitLines /\ [][NextLines]_vars

(* ------------------------------ claims -------------------------------- *)
\* What the claims say of a board, stated on its cells and not by a scan.
Rows(g) == 0..(g.num_rows - 1)
Cols(g) == 0..(g.num_cols - 1)
At(g, row, col) == g.items[col * g.num_rows + (g.num_rows - 1 - row)]

\* right, down, down-right, up-right
Directions == {<<0, 1>>, <<1, 0>>, <<1, 1>>, <<-1, 1>>}
TOOT == <<1, -1, -1, 1>>
OTTO == <<-1, 1, 1, -1>>

\* Four cells inside the board, consecutive in one direction, reading pat.
HasLine(g, pat) ==
    \E row \in Rows(g), col \in Cols(g), d \in Directions :
        \A k \in 0..3 :
            /\ row + k * d[1] \in Rows(g)
            /\ col + k * d[2] \in Cols(g)
            /\ At(g, row + k * d[1], col + k * d[2]) = pat[k + 1]

HasPattern(g) == HasLine(g, TOOT) \/ HasLine(g, OTTO)

\* The chips of column col, and whether every row of it is occupied.
ColumnCount(g, col) == Cardinality({row \in Rows(g) : At(g, row, col) /= 0})
ColumnFull(g, col) == \A row \in Rows(g) : At(g, row, col) /= 0
BoardFull(g) == \A col \in Cols(g) : ColumnFull(g, col)
BoardEmpty(g) == \A x \in 0..(Capacity - 1) : g.items[x] = 0

NumCells == dummy_grid.num_rows * dummy_grid.num_cols
Moves == {"make_move", "ai_make_move"}

\* C1 (as stated; refuted): once the state is Done, every make_move and
\* ai_make_move call returns an error and leaves both boards, the move
\* counter, the state and the winner unchanged.  Stated of the games in
\* which every column given was one of the board's, which C2 does not touch.
C1_DoneRejectsMoves ==
    [][(state = "Done" /\ last'.op \in Moves /\ last'.col \in Cols(grid)
        /\ Stray(grid) = 0)
        => (last'.kind = "Err" /\ UNCHANGED game)]_vars

\* C2 (as stated; refuted): make_move with a column index >= the number of
\* columns returns an error, does not abort, and changes no cell of either
\* board's storage, nor the move counter, the state or the winner.
C2_OutOfRangeRejected ==
    [][(last'.op = "make_move" /\ last'.col >= grid.num_cols)
        => (last'.kind = "Err" /\ proc' = "running" /\ UNCHANGED game)]_vars

\* C3: make_move into a column of the board whose every row is occupied
\* returns an error and leaves both boards, the move counter, the state and
\* the winner unchanged.
C3_FullColumnRejected ==
    [][(last'.op = "make_move" /\ last'.col \in Cols(grid)
        /\ ColumnFull(grid, last'.col))
        => (last'.kind = "Err" /\ proc' = "running" /\ UNCHANGED game)]_vars

C3_Witness ==
    /\ last.op = "make_move" /\ last.kind = "Err"
    /\ last.col \in Cols(grid) /\ ColumnFull(grid, last.col)
    /\ state = "Running" /\ ~BoardFull(grid)

\* C4: a move into a column of the board holding k chips: when k < rows, both
\* inserts place their value at row rows - 1 - k of that column (the storage
\* cell col * rows + k), that row is returned and no other cell changes; when
\* k = rows the insert returns an error and no cell changes.
C4_InsertGravity ==
    [][(last'.op \in Moves /\ last'.col \in Cols(grid))
        => LET col == last'.col
               k == ColumnCount(grid, col)
               x == col * grid.num_rows + k
           IN  IF k < grid.num_rows
               THEN /\ last'.kind = "Ok"
                    /\ last'.row = grid.num_rows - 1 - k
                    /\ grid.items[x] = 0 /\ dummy_grid.items[x] = 0
                    /\ grid'.items[x] = player_move_translate(p_move)
                    /\ dummy_grid'.items[x] \in {1, -1}
                    /\ \A y \in (0..(Capacity - 1)) \ {x} :
                          /\ grid'.items[y] = grid.items[y]
                          /\ dummy_grid'.items[y] = dummy_grid.items[y]
               ELSE /\ last'.kind = "Err"
                    /\ grid' = grid /\ dummy_grid' = dummy_grid]_vars

C4_Witness ==
    /\ grid.num_rows = 2 /\ grid.num_cols = 2
    /\ last.op = "make_move" /\ last.kind = "Ok" /\ last.row = 0
    /\ ColumnCount(grid, last.col) = 2
    /\ ColumnCount(grid, 1 - last.col) = 1

\* C5: in a game of moves from a new game (start_game not called on a
\* finished game), the state is Running exactly when the chip board holds no
\* winning window and the move count is below rows x cols.
C5_RunningIffUndecided ==
    ~restarted =>
        (state = "Running" <=> (~HasPattern(dummy_grid) /\ p_move < NumCells))

\* a move that completes a line ended a game whose board is not full
C5_Witness ==
    /\ ~restarted /\ state = "Done" /\ last.kind = "Ok"
    /\ HasPattern(dummy_grid) /\ p_move < NumCells
    /\ ~BoardFull(dummy_grid)

\* C6 (as stated; refuted): a move that ends the game sets the winner to
\* player 1's name on T-O-O-T, player 2's name on O-T-T-O and "Draw" on a
\* full board with no pattern; and while the state is Running the winner is
\* the empty string.
C6_WinnerNames(restart_excepted) ==
    /\ (last'.op \in Moves /\ state = "Running" /\ state' = "Done")
        => /\ last'.scan = Some(1) => (winner' = p1 /\ HasLine(dummy_grid', TOOT))
           /\ last'.scan = Some(-1) => (winner' = p2 /\ HasLine(dummy_grid', OTTO))
           /\ (HasLine(dummy_grid', TOOT) /\ ~HasLine(dummy_grid', OTTO))
                 => winner' = p1
           /\ (HasLine(dummy_grid', OTTO) /\ ~HasLine(dummy_grid', TOOT))
                 => winner' = p2
           /\ (BoardFull(dummy_grid') /\ ~HasPattern(dummy_grid'))
                 => winner' = "Draw"
           /\ winner' \in {p1, p2, "Draw"}
    /\ (state' = "Running" /\ ~(restart_excepted /\ restarted')) => winner' = ""

C6_WinnerAsStated == [][C6_WinnerNames(FALSE)]_vars

\* C6 (amended): the same, the winner being the empty string while the state
\* is Running and start_game has not been called on a finished game.
C6_WinnerAmended == [][C6_WinnerNames(TRUE)]_vars

\* player 2 placed the last chip, and T-O-O-T made player 1 the winner
C6_Witness ==
    /\ ~restarted /\ state = "Done" /\ last.op \in Moves /\ last.kind = "Ok"
    /\ last.scan = Some(1) /\ winner = p1
    /\ player_move_translate(p_move - 1) = -1

\* C7: the check_win of an accepted move reports a draw exactly when the move
\* count equals rows x cols, the chip board holds no winning pattern and the
\* state was not Done; a move that fills the board and completes a line
\* reports the win, not the draw.
C7_DrawExactly ==
    [][(last'.op \in Moves /\ last'.kind = "Ok")
        => /\ last'.scan = Some(0)
                <=> (p_move' = NumCells /\ ~HasPattern(dummy_grid')
                     /\ state /= "Done")
           /\ (p_move' = NumCells /\ HasPattern(dummy_grid'))
                => (last'.scan \in {Some(1), Some(-1)} /\ winner' /= "Draw")]_vars

\* the move that fills the board also completes a line
C7_Witness ==
    /\ last.op \in Moves /\ last.kind = "Ok" /\ ~restarted
    /\ p_move = NumCells /\ BoardFull(dummy_grid) /\ HasPattern(dummy_grid)
    /\ last.scan = Some(1) /\ winner = p1 /\ state = "Done"

\* C8: on every chip board check_win reports a winner exactly when four
\* cells inside the board, consecutive in the horizontal, vertical,
\* down-right or up-right direction, read T-O-O-T or O-T-T-O; the winner it
\* reports is one whose pattern is on the board.
C8_ScanIffLine ==
    last.op = "check_win"
        => /\ last.scan \in {None, Some(1), Some(-1)}
           /\ last.scan /= None <=> HasPattern(dummy_grid)
           /\ last.scan = Some(1) => HasLine(dummy_grid, TOOT)
           /\ last.scan = Some(-1) => HasLine(dummy_grid, OTTO)

\* T O O T in the bottom row of the 4 x 4 board, every other cell empty
C8_Witness ==
    /\ last.op = "check_win" /\ last.scan = Some(1)
    /\ dummy_grid.num_rows = 4 /\ dummy_grid.num_cols = 4
    /\ \A row \in Rows(dummy_grid), col \in Cols(dummy_grid) :
           At(dummy_grid, row, col)
               = (IF row = 3 THEN TOOT[col + 1] ELSE 0)

\* C9 (as stated; refuted): check_win never reports a winner while fewer
\* than 7 moves have been accepted.
C9_NoWinnerBefore7 ==
    (last.op \in Moves /\ last.scan \in {Some(1), Some(-1)}) => p_move >= 7

\* C9 (amended): check_win never reports a winner while fewer than 4 moves
\* have been accepted.
C9_NoWinnerBefore4 ==
    (last.op \in Moves /\ last.scan \in {Some(1), Some(-1)}) => p_move >= 4

\* the fourth move is reported as a win
C9_Witness ==
    last.op \in Moves /\ last.scan \in {Some(1), Some(-1)} /\ p_move = 4

\* C10 (as stated; refuted): start_game moves the game to Running, and
\* afterwards every cell of both boards is empty and the move count is 0.
C10_StartResets ==
    [][last'.op = "start_game"
        => (state' = "Running" /\ BoardEmpty(grid') /\ BoardEmpty(dummy_grid')
            /\ p_move' = 0)]_vars

\* C10 (amended): start_game, called in any state, moves the game to Running
\* and leaves both boards, the move counter and the winner as they were.
C10_StartKeeps ==
    [][last'.op = "start_game"
        => (state' = "Running"
            /\ UNCHANGED <<grid, dummy_grid, p_move, winner>>)]_vars

\* start_game was called on a finished game: Running, the chips still there
C10_Witness ==
    /\ last.op = "start_game" /\ state = "Running"
    /\ restarted /\ p_move > 0 /\ winner /= "" /\ ~BoardEmpty(dummy_grid)

(* ----------------------- claims on the search ------------------------- *)
\* The board g with val dropped into column col, stated on the cells: the
\* cell above the chips of the column is written.
ChildOf(g, col, val) ==
    [g EXCEPT !.items[col * g.num_rows + ColumnCount(g, col)] = val]

ChipVal(chip) == IF chip = "T" THEN 1 ELSE -1

\* Draws of which one is enough where a value does not depend on the draws.
FirstDraws == [coin |-> TRUE, t |-> 0, o |-> 0]

\* The pairs ai_move_val can return after the two searches recorded in l:
\* any column of the move_queue of the chip with the larger value, of either
\* chip when the values are equal.
Returnable(l) ==
    LET t_moves == {<<"T", l.t_queue[n]>> : n \in 1..Len(l.t_queue)}
        o_moves == {<<"O", l.o_queue[n]>> : n \in 1..Len(l.o_queue)}
    IN  IF l.t_val > l.o_val THEN t_moves
        ELSE IF l.t_val < l.o_val THEN o_moves
        ELSE t_moves \cup o_moves

\* C11: whenever the board has a column that is not full, the pair returned
\* by ai_move_val, and every pair its draws could have made it return, is a
\* chip of {T, O} and a column of the board that is not full, and the
\* position reached by dropping that chip into that column has the value the
\* search of that chip returned, which is the larger of the two root values.
C11_ChosenMoveValid ==
    (last.op = "ai_move_val" /\ ~BoardFull(dummy_grid)) =>
        /\ last.move \in Returnable(last)
        /\ last.draws = FirstDraws =>
             \A mv \in Returnable(last) :
               LET chip == mv[1]
                   col == mv[2]
                   score == IF chip = "T" THEN last.t_val ELSE last.o_val
               IN  /\ chip \in Chips
                   /\ col \in Cols(dummy_grid)
                   /\ ~ColumnFull(dummy_grid, col)
                   /\ score = Max2(last.t_val, last.o_val)
                   /\ ai_value(ChildOf(dummy_grid, col, ChipVal(chip)), 0, -Inf, Inf,
                               ChipVal(chip), max_ai_depth).v = score

\* C11 witness: a search of depth 2 on a board with a full column and two
\* columns that are not, returning one of the latter.
C11_Witness ==
    /\ last.op = "ai_move_val"
    /\ max_ai_depth = 2
    /\ \E c \in Cols(dummy_grid) : ColumnFull(dummy_grid, c)
    /\ Cardinality({c \in Cols(dummy_grid) : ~ColumnFull(dummy_grid, c)}) >= 2
    /\ last.move[2] \in Cols(dummy_grid)
    /\ ~ColumnFull(dummy_grid, last.move[2])

\* C12: ai_move_val, with the whole search below it, leaves the game as it
\* was: both boards, the move counter, the state and the winner are the same
\* after the call as before it.
C12_SearchLeavesGame ==
    [][last'.op = "ai_move_val" => UNCHANGED game]_vars

\* C12 witness: a search that entered ai_value on twenty or more positions
\* has returned a move, on a board that holds chips.
C12_Witness ==
    /\ last.op = "ai_move_val"
    /\ last.calls >= 20
    /\ last.move[2] \in Cols(dummy_grid)
    /\ ~BoardEmpty(dummy_grid)

\* The search with pruning disabled, stated without a window: every open
\* column of every position is explored, a maximising ply takes the largest
\* value and a minimising ply the smallest.
OpenCols(g) == {c \in Cols(g) : ~ColumnFull(g, c)}
SetMax(S) == CHOOSE x \in S : \A y \in S : y <= x
SetMin(S) == CHOOSE x \in S : \A y \in S : x <= y

RECURSIVE FullValue(_, _, _, _)
FullMax(g, depth, chip, maxd) ==
    SetMax({-Inf} \cup {FullValue(ChildOf(g, c, chip), depth, chip, maxd) :
                            c \in OpenCols(g)})

FullMin(g, depth, chip, maxd) ==
    SetMin({Inf} \cup {FullValue(ChildOf(g, c, -chip), depth, chip, maxd) :
                           c \in OpenCols(g)})

FullValue(g, depth, chip, maxd) ==
    LET val == ai_check_state(g)
    IN  IF depth >= maxd THEN LeafValue(val, depth, chip)
        ELSE IF val[1] = 4 THEN WinScore - depth * depth
        ELSE IF val[1] = -4 THEN -WinScore - depth * depth
        ELSE IF depth % 2 = 0
        THEN SetMin({FullMin(g, depth + 1, 1, maxd), FullMin(g, depth + 1, -1, maxd)})
        ELSE SetMax({FullMax(g, depth + 1, 1, maxd), FullMax(g, depth + 1, -1, maxd)})

\* The positions the search with pruning disabled evaluates from position g
\* at depth depth, g included.
RECURSIVE FullCalls(_, _, _)
RECURSIVE SumCalls(_, _, _, _)
SumCalls(g, depth, maxd, todo) ==
    IF todo = {} THEN 0
    ELSE LET x == CHOOSE y \in todo : TRUE
         IN  FullCalls(ChildOf(g, x[1], x[2]), depth, maxd)
             + SumCalls(g, depth, maxd, todo \ {x})

FullCalls(g, depth, maxd) ==
    IF depth >= maxd \/ ai_check_state(g)[1] /= 0 THEN 1
    ELSE 1 + SumCalls(g, depth + 1, maxd, OpenCols(g) \X {1, -1})

\* C13: on every board, for each root chip and depth limit, the value the
\* search with alpha-beta pruning returns at the root is the value the
\* search with pruning disabled returns.
C13_PrunedEqualsFull ==
    (last.op = "ai_move_val" /\ last.draws = FirstDraws) =>
        /\ last.t_val = FullMax(dummy_grid, 0, 1, max_ai_depth)
        /\ last.o_val = FullMax(dummy_grid, 0, -1, max_ai_depth)

\* C13 witness: a search of depth 2 that returned having evaluated fewer
\* positions than the search with pruning disabled does.
C13_Witness ==
    /\ last.op = "ai_move_val"
    /\ last.draws = FirstDraws
    /\ max_ai_depth = 2
    /\ last.calls < SumCalls(dummy_grid, 0, max_ai_depth,
                             OpenCols(dummy_grid) \X {1, -1})
    /\ last.t_val = FullMax(dummy_grid, 0, 1, max_ai_depth)

\* C14: a completed line found by ai_value at depth d is scored
\* 999999 - d * d when it is O-T-T-O, the pattern of the AI, and
\* -(999999 - d * d) when it is T-O-O-T, at the depth limit and below it.
C14_TerminalScore ==
    last.op = "ai_value" =>
        LET d == last.depth
        IN  /\ (HasLine(dummy_grid, OTTO) /\ ~HasLine(dummy_grid, TOOT))
                   => last.v = WinScore - d * d
            /\ (HasLine(dummy_grid, TOOT) /\ ~HasLine(dummy_grid, OTTO))
                   => last.v = -(WinScore - d * d)

\* The half of C14 on O-T-T-O alone.
C14_WinScore ==
    (last.op = "ai_value" /\ HasLine(dummy_grid, OTTO) /\ ~HasLine(dummy_grid, TOOT))
        => last.v = WinScore - last.depth * last.depth

\* What ai_value returns on T-O-O-T: -999999 - d * d.
C14_LossScoreOfCode ==
    (last.op = "ai_value" /\ HasLine(dummy_grid, TOOT) /\ ~HasLine(dummy_grid, OTTO))
        => last.v = -WinScore - last.depth * last.depth

(* ------------------- claims on the boards of a game ------------------- *)
\* No empty cell of column col lies below an occupied one: rows grow
\* downward, row num_rows - 1 is the bottom.
Contiguous(g, col) ==
    \A row \in Rows(g) :
        At(g, row, col) /= 0 =>
            \A below \in (row + 1)..(g.num_rows - 1) : At(g, below, col) /= 0

\* C15: in every state reached by make_move and ai_make_move calls, the
\* occupied cells of every column of both boards are contiguous from the
\* bottom row upward.
C15_NoFloatingChips ==
    /\ \A col \in Cols(grid) : Contiguous(grid, col)
    /\ \A col \in Cols(dummy_grid) : Contiguous(dummy_grid, col)

\* C15 witness: ai_make_move has placed a chip on a chip, in a column that
\* still has two empty cells.
C15_Witness ==
    /\ last.op = "ai_make_move"
    /\ last.kind = "Ok"
    /\ ColumnCount(dummy_grid, last.col) >= 2
    /\ ColumnCount(dummy_grid, last.col) + 2 <= dummy_grid.num_rows
    /\ ColumnCount(grid, last.col) = ColumnCount(dummy_grid, last.col)

\* The cells of the storage where g and h differ.
Changed(g, h) == {x \in 0..(Capacity - 1) : g.items[x] /= h.items[x]}

\* A cell of the storage holds a value in g exactly when it does in dg.
InStep(g, dg) ==
    \A x \in 0..(Capacity - 1) : (g.items[x] /= 0) <=> (dg.items[x] /= 0)

\* C16: the mover board and the chip board stay in step.  After every step a
\* cell is occupied in one exactly when it is in the other; a move that
\* returns Ok has written one cell, the same (row, column), in both; and a
\* move that panics has written nothing, so the second insert did not fail
\* after the first succeeded.
C16_BoardsInStep ==
    [][/\ InStep(grid', dummy_grid')
       /\ (last'.op \in Moves /\ last'.kind = "Ok") =>
              /\ Changed(grid, grid') = Changed(dummy_grid, dummy_grid')
              /\ Changed(grid, grid')
                     = {last'.col * grid.num_rows + (grid.num_rows - 1 - last'.row)}
       /\ (last'.op \in Moves /\ last'.kind = "Panic") =>
              /\ grid' = grid
              /\ dummy_grid' = dummy_grid]_vars

\* C16 witness: ai_make_move has written the third chip of a game, the same
\* cell in both boards.
C16_Witness ==
    /\ last.op = "ai_make_move"
    /\ last.kind = "Ok"
    /\ p_move >= 3
    /\ At(grid, last.row, last.col) /= 0
    /\ At(dummy_grid, last.row, last.col) /= 0
    /\ InStep(grid, dummy_grid)

\* C17: ai_make_move is never fatal: in every reachable state, a full board
\* and a game that is Done included, it returns, having placed a chip in a
\* column of the board.
C17_AiMoveNeverFatal ==
    last.op = "ai_make_move" =>
        /\ last.kind = "Ok"
        /\ last.col \in Cols(grid)

\* What the code does on a full board: ai_make_move panics, and never on a
\* board with an open column.
C17_PanicsWhenFull ==
    [][last'.op = "ai_make_move" =>
           (last'.kind = "Panic" <=> BoardFull(dummy_grid))]_vars

DirOrder == <<<<0, 1>>, <<1, 0>>, <<1, 1>>, <<-1, 1>>>>
PatOrder == <<TOOT, OTTO>>

\* The line of pattern p in direction d from cell n, cells counted row by
\* row from the top row, lies on the board g.
LineFrom(g, n, d, p) ==
    \A k \in 0..3 :
        LET row == (n \div g.num_cols) + k * DirOrder[d][1]
            col == (n % g.num_cols) + k * DirOrder[d][2]
        IN  /\ row \in Rows(g)
            /\ col \in Cols(g)
            /\ At(g, row, col) = PatOrder[p][k + 1]

Matches(g) ==
    {m \in (0..(g.num_rows * g.num_cols - 1)) \X (1..4) \X (1..2) :
         LineFrom(g, m[1], m[2], m[3])}

ScanKey(m) == (m[1] * 4 + (m[2] - 1)) * 2 + (m[3] - 1)

FirstMatch(g) ==
    CHOOSE m \in Matches(g) : \A other \in Matches(g) : ScanKey(m) <= ScanKey(other)

\* C19: when the board holds one winning line or several, check_win reports
\* the pattern of the first match in scan order alone: cells row by row from
\* the top row, at each cell right, down, down-right, up-right, and T-O-O-T
\* before O-T-T-O.
C19_FirstInScanOrder ==
    (last.op = "check_win" /\ Matches(dummy_grid) /= {}) =>
        last.scan = Some(IF FirstMatch(dummy_grid)[3] = 1 THEN 1 ELSE -1)

\* C19 witness: a board that holds a T-O-O-T line and an O-T-T-O line, the
\* O-T-T-O line first in scan order, and check_win reports O-T-T-O.
C19_Witness ==
    /\ last.op = "check_win"
    /\ HasLine(dummy_grid, TOOT)
    /\ HasLine(dummy_grid, OTTO)
    /\ FirstMatch(dummy_grid)[3] = 2
    /\ last.scan = Some(-1)

(* --------------------- claims on the depth of search ------------------- *)
EmptyCells(g) == g.num_rows * g.num_cols - Chips_on(g)

\* C20: every call of ai_move_val returns; ai_value is never entered with a
\* depth greater than max_ai_depth; and each ply adds one to the depth: a
\* position entered at depth d holds d + 1 chips more than the board, and on a
\* board too small to hold a line the search goes as deep as the depth limit
\* and the empty cells allow.
C20_DepthBounded ==
    /\ last.op \in {"new", "make_move"} => ENABLED ai_select
    /\ last.op = "ai_move_val" =>
        /\ last.deep <= max_ai_depth
        /\ ~BoardFull(dummy_grid) => last.deep + 1 <= EmptyCells(dummy_grid)
        /\ (~BoardFull(dummy_grid) /\ dummy_grid.num_rows < 4 /\ dummy_grid.num_cols < 4)
               => last.deep = Min2(max_ai_depth, EmptyCells(dummy_grid) - 1)

\* C20 witness: a search with depth limit 2 has returned, having entered
\* ai_value at depth 2 and on ten positions or more.
C20_Witness ==
    /\ last.op = "ai_move_val"
    /\ max_ai_depth = 2
    /\ last.deep = 2
    /\ last.calls >= 10

(* ---------------------- claims on the move counter --------------------- *)
\* The cells of the board g that hold val.
Markers(g, val) ==
    Cardinality({x \in 0..(g.num_rows * g.num_cols - 1) : g.items[x] = val})

\* The move counter pm counts the chips of both boards, and the markers of
\* player 1 on the mover board are as many as those of player 2 when pm is
\* even, one more when it is odd.
Counted(g, dg, pm) ==
    /\ pm = Chips_on(g)
    /\ pm = Chips_on(dg)
    /\ Markers(g, 1) - Markers(g, -1) = pm % 2

\* C21: after every step the move counter is the number of occupied cells of
\* each board, with the markers of the two players in turn; a move that
\* returns Ok has added one chip to each board and one to the counter, and a
\* move that returns an error has added none.
C21_CounterCountsChips ==
    [][/\ Counted(grid', dummy_grid', p_move')
       /\ (last'.op \in Moves /\ last'.kind = "Ok") =>
              /\ p_move' = p_move + 1
              /\ Chips_on(grid') = Chips_on(grid) + 1
              /\ Chips_on(dummy_grid') = Chips_on(dummy_grid) + 1
       /\ (last'.op \in Moves /\ last'.kind /= "Ok") =>
              /\ p_move' = p_move
              /\ Chips_on(grid') = Chips_on(grid)
              /\ Chips_on(dummy_grid') = Chips_on(dummy_grid)]_vars

\* What holds of the code: the counter counts the chips while no move has
\* been given a column past the board.
C21_CountedOnBoard ==
    Stray(grid) = 0 => Counted(grid, dummy_grid, p_move)

(* ----------------------- claims on the win signal ---------------------- *)
\* C22: on every chip board the win signal of ai_check_state agrees with the
\* pattern scan of check_win: 4 exactly when the scan reports player 2
\* (O-T-T-O), -4 exactly when it reports player 1 (T-O-O-T), and 0 exactly
\* when the scan finds no pattern.
C22_SignalAgreesWithScan ==
    LET win == ai_check_state(dummy_grid)[1]
        m == ScanFrom(dummy_grid, 0)
    IN  /\ win = 4 <=> m = -1
        /\ win = -4 <=> m = 1
        /\ win = 0 <=> m = 0

\* What holds of the code: the two agree on every board that does not hold
\* both patterns.
C22_AgreesOnOnePattern ==
    ~(HasLine(dummy_grid, TOOT) /\ HasLine(dummy_grid, OTTO)) =>
        C22_SignalAgreesWithScan

(* ---------------------- claims on the move played ---------------------- *)
\* Some chip dropped into some open column of g completes an O-T-T-O line.
CanCompleteOTTO(g) ==
    \E col \in OpenCols(g), val \in {1, -1} : HasLine(ChildOf(g, col, val), OTTO)

\* C23: whenever the game is Running and a T or an O dropped into an open
\* column would complete an O-T-T-O line, ai_make_move, with any depth
\* limit, plays a move that ends the game at once with player 2 as the
\* winner.
C23_AiTakesTheWin ==
    [][(state = "Running" /\ last'.op = "ai_make_move"
        /\ CanCompleteOTTO(dummy_grid)) =>
           /\ last'.kind = "Ok"
           /\ state' = "Done"
           /\ winner' = p2]_vars

\* What holds of the code with depth limit 0: the move played completes a
\* line.
C23_AtDepthZero ==
    [][(state = "Running" /\ last'.op = "ai_make_move" /\ max_ai_depth = 0
        /\ CanCompleteOTTO(dummy_grid)) =>
           /\ last'.kind = "Ok"
           /\ state' = "Done"
           /\ winner' = p2]_vars

====
